---- MODULE Spec2Model ----
(***************************************************************************)
(* Model of the export helpers of blender-fbx-plus:                        *)
(*   - anim_utils.py: the animation-compatibility classifier               *)
(*     (is_action_compatible_with_export and the functions it calls);      *)
(*   - bake_transform.py: the bake / unbake rotation transform.            *)
(* The parts share no state; each has its own specifications over the      *)
(* module's variables: SpecClassify and SpecTwice (one and two calls of    *)
(* the classifier), SpecBake (single-object bake / unbake), SpecBatch (the *)
(* batch calls), SpecActions and SpecGroups (the export panel's lists).    *)
(***************************************************************************)
EXTENDS Integers, Sequences, FiniteSets, TLC

VARIABLES
    pc,          \* classifier: "ready" (inputs chosen) or "done" (call returned)
    objects,     \* classifier: the scene's objects, in scene order
    context,     \* classifier: the part of bpy.context the classifier reads
    operator,    \* classifier: the export operator's settings
    action,      \* classifier: the clip handed to the classifier, or NoAction
    result,      \* classifier: what is_action_compatible_with_export returned
    rotation,    \* bake: rotation_euler of every object (float32, see ToFloat32)
    geometry,    \* bake: per object, the rotation about local X baked into its data, in degrees
    selected,    \* bake: the set of selected objects
    active,      \* bake: view_layer.objects.active, or NoObject
    returned,    \* bake: what the last call returned
    start,       \* bake: rotation and geometry of every object before the first call
    history,     \* bake: per object, the calls made on it and its state after each
    batch,       \* batch: the last batch call, its arguments and the state it found
    actions,     \* lists: bpy.data.actions, the available clips in order
    selected_actions,           \* lists: operator.selected_actions
    operator_ref,               \* lists: the list operators' operator_ref is set
    groups,                     \* lists: what get_animation_groups_data() gives
    selected_animation_groups,  \* lists: operator.selected_animation_groups
    redraw                      \* lists: whether the group list has been populated, and
                                \*        the items its last populating call found

vars == <<pc, objects, context, operator, action, result,
          rotation, geometry, selected, active, returned, start, history,
          batch, actions, selected_actions, operator_ref, groups,
          selected_animation_groups, redraw>>

classifyVars == <<pc, objects, context, operator, action, result>>
bakeVars == <<rotation, geometry, selected, active, returned, start, history>>
batchVars == <<batch>>
listVars == <<actions, selected_actions, operator_ref, groups,
              selected_animation_groups, redraw>>

\* The value of the variables a specification does not use.
Unused(v) == v = <<>>


(***************************************************************************)
(* Bounds of the model.                                                    *)
(***************************************************************************)
MaxCurves == 2      \* curves per curve list (a clip's, or one slot's)
MaxSlots == 2       \* slots per clip
MaxObjects == 2     \* objects in the scene
MaxOps == 3         \* bake / unbake calls per behaviour
MaxBatches == 2     \* batch calls per behaviour
MaxClips == 2       \* clips in bpy.data.actions
MaxGroups == 2      \* animation groups in the scene

(***************************************************************************)
(* Part 1: the compatibility classifier (anim_utils.py).                   *)
(***************************************************************************)

\* F-curves: a data path and an array index (fc.data_path, fc.array_index).
\*   location[1]   resolves on every object
\*   eval_time     a property of the shape-key block, not of an object
\*   location[5]   the path exists, the index is out of range
CurveOrder ==
    << [data_path |-> "location", array_index |-> 1],
       [data_path |-> "eval_time", array_index |-> 0],
       [data_path |-> "location", array_index |-> 5] >>

\* The property tree of an object: path -> array length (0: not an array).
ObjectTree == [p \in {"location"} |-> 3]

\* The property tree of a shape-key block (obj.data.shape_keys).
ShapeKeyTree == [p \in {"eval_time"} |-> 0]

\* The elements of seq at the positions in S, in the order of seq.
SubList(seq, S) ==
    LET f[i \in 0..Len(seq)] ==
            IF i = 0 THEN <<>>
            ELSE IF i \in S THEN Append(f[i - 1], seq[i]) ELSE f[i - 1]
    IN  f[Len(seq)]

\* The sub-lists of seq of at most n elements.
SubLists(seq, n) ==
    { SubList(seq, S) : S \in { T \in SUBSET (1..Len(seq)) : Cardinality(T) <= n } }

\* The curve lists of the model (a curve list holds no curve twice).
CurveLists == SubLists(CurveOrder, MaxCurves)

\* slot.target_id_type
SlotTypes == {"OBJECT", "KEY"}

\* A slot: its target-type tag and the f-curves of its channelbag (none when
\* the slot has no channelbag).
Slots == [target_id_type : SlotTypes, fcurves : CurveLists]

SlotLists == UNION { [1..n -> Slots] : n \in 0..MaxSlots }

\* No clip at all (bpy.data.actions.get found nothing).
NoAction == [absent |-> TRUE]

\* The clips.  action.fcurves of a clip with slots is the host's legacy view:
\* the f-curves of the clip's first slot; a clip without slots carries its
\* own curve list.
Actions ==
    { [fcurves |-> IF sl = <<>> THEN fc ELSE sl[1].fcurves, slots |-> sl] :
          sl \in SlotLists, fc \in CurveLists }

\* The objects a scene is built from, in scene order.
\*   animation_data: "none" (no binding), "readonly" (binding locked), "ok"
\*   shape_keys:     obj.data.shape_keys is set
\*   select/visible: obj.select_get(), obj.visible_get()
\*   collections:    the collections whose all_objects hold the object
ObjectPool ==
    << [name |-> "Plane", type |-> "MESH", animation_data |-> "ok", shape_keys |-> FALSE,
        select |-> TRUE, visible |-> TRUE, in_view_layer |-> TRUE,
        collections |-> {"Active"}],
       [name |-> "Locked", type |-> "MESH", animation_data |-> "readonly", shape_keys |-> TRUE,
        select |-> TRUE, visible |-> FALSE, in_view_layer |-> TRUE,
        collections |-> {"Active", "Props"}],
       [name |-> "Cube", type |-> "MESH", animation_data |-> "ok", shape_keys |-> TRUE,
        select |-> TRUE, visible |-> TRUE, in_view_layer |-> TRUE,
        collections |-> {"Active", "Props"}],
       [name |-> "Static", type |-> "MESH", animation_data |-> "none", shape_keys |-> TRUE,
        select |-> TRUE, visible |-> TRUE, in_view_layer |-> FALSE,
        collections |-> {"Props"}],
       [name |-> "Path", type |-> "CURVE", animation_data |-> "ok", shape_keys |-> TRUE,
        select |-> FALSE, visible |-> TRUE, in_view_layer |-> TRUE,
        collections |-> {"Props"}] >>

\* The scenes: at most MaxObjects objects of the pool.
Scenes == SubLists(ObjectPool, MaxObjects)

\* bpy.data.collections
DataCollections == {"Active", "Props"}

NoCollection == ""

\* The (context, operator) pairs of the model.  context.view_layer is FALSE
\* when the context has no view layer to read (reading it raises).
Settings ==
    LET Op(ac, c, sel, vis, types) ==
            [use_active_collection |-> ac, collection |-> c, use_selection |-> sel,
             use_visible |-> vis, object_types |-> types]
    IN  { <<[view_layer |-> TRUE], Op(FALSE, "", FALSE, FALSE, {})>>,
          <<[view_layer |-> TRUE], Op(FALSE, "", TRUE, FALSE, {})>>,
          <<[view_layer |-> TRUE], Op(FALSE, "Gone", FALSE, TRUE, {"MESH"})>>,
          <<[view_layer |-> TRUE], Op(TRUE, "", TRUE, FALSE, {"MESH", "CURVE"})>>,
          <<[view_layer |-> TRUE], Op(FALSE, "Props", FALSE, FALSE, {"MESH", "CURVE"})>>,
          <<[view_layer |-> FALSE], Op(FALSE, "", FALSE, FALSE, {})>> }

\* get_context_objects_for_export: the objects the export would act on, in
\* order.  Any error on the way gives the empty list.
get_context_objects_for_export(scene, ctx, op) ==
    LET source_collection ==
            IF op.use_active_collection THEN "Active"
            ELSE IF op.collection # "" /\ op.collection \in DataCollections
                 THEN op.collection
                 ELSE NoCollection
        \* the context is read for the active collection, the selected objects
        \* and the view layer's objects
        reads_context == op.use_active_collection \/ source_collection = NoCollection
        InSource(o) == source_collection \in o.collections
        Selected(o) == o.select
        InLayer(o) == o.in_view_layer
        SelectedInLayer(o) == o.in_view_layer /\ o.select
        base ==
            IF source_collection # NoCollection
            THEN IF op.use_selection
                 THEN SelectSeq(SelectSeq(scene, InSource), Selected)
                 ELSE SelectSeq(scene, InSource)
            ELSE IF op.use_selection
                 THEN SelectSeq(scene, SelectedInLayer)
                 ELSE SelectSeq(scene, InLayer)
        Visible(o) == o.visible
        shown == IF op.use_visible THEN SelectSeq(base, Visible) ELSE base
        OfType(o) == o.type \in op.object_types
    IN  IF reads_context /\ ~ctx.view_layer
        THEN <<>>
        ELSE IF op.object_types # {} THEN SelectSeq(shown, OfType) ELSE shown

\* The path string validate_actions hands to path_resolve: the data path,
\* with "[index]" appended when the array index is not 0.
FullPath(fc) ==
    IF fc.array_index # 0 THEN <<fc.data_path, fc.array_index>> ELSE <<fc.data_path>>

\* target.path_resolve(path): "ok", or the error it raises.
path_resolve(tree, path) ==
    IF path[1] \notin DOMAIN tree THEN "ValueError"
    ELSE IF Len(path) = 1 THEN "ok"
    ELSE IF tree[path[1]] = 0 THEN "ValueError"
    ELSE IF path[2] < tree[path[1]] THEN "ok"
    ELSE "IndexError"

\* validate_actions: "True", "False", or the error that leaves it (only
\* ValueError is caught).
validate_actions(act, tree) ==
    LET check[i \in 1..(Len(act.fcurves) + 1)] ==
            IF i > Len(act.fcurves) THEN "True"
            ELSE LET r == path_resolve(tree, FullPath(act.fcurves[i]))
                 IN  IF r = "ok" THEN check[i + 1]
                     ELSE IF r = "ValueError" THEN "False"
                     ELSE r
    IN  IF act = NoAction \/ act.fcurves = <<>> THEN "True" ELSE check[1]

\* get_fcurves_for_slot: the f-curves of the slot's channelbag; the empty
\* list when the index is past the slots or the slot has no channelbag.
get_fcurves_for_slot(act, slot_index) ==
    IF ~(act.slots # <<>> /\ slot_index <= Len(act.slots))
    THEN <<>>
    ELSE act.slots[slot_index].fcurves

\* validate_fcurves_for_object without the shape-key requirement of a 'KEY' slot.
validate_fcurves_any_key_target(fcurves, obj, slot_type) ==
    IF fcurves = <<>> THEN TRUE
    ELSE LET target_obj == IF slot_type = "KEY" THEN ShapeKeyTree ELSE ObjectTree
         IN  \A i \in 1..Len(fcurves) :
                 path_resolve(target_obj, <<fcurves[i].data_path>>) = "ok"

\* validate_fcurves_for_object: the data paths alone are resolved (no array
\* index), against the shape-key block for a 'KEY' slot.
validate_fcurves_for_object(fcurves, obj, slot_type) ==
    IF fcurves = <<>> THEN TRUE
    ELSE IF slot_type = "KEY" /\ ~(obj.type = "MESH" /\ obj.shape_keys) THEN FALSE
    ELSE LET target_obj == IF slot_type = "KEY" THEN ShapeKeyTree ELSE ObjectTree
         IN  \A i \in 1..Len(fcurves) :
                 path_resolve(target_obj, <<fcurves[i].data_path>>) = "ok"

\* The direct check without its "except Exception: pass".
direct_check_uncaught(obj, act) ==
    LET r == validate_actions(act, ObjectTree)
    IN  IF r = "True" THEN "match" ELSE IF r = "False" THEN "slots" ELSE r

\* Lines 428-434: the direct check of one object; an error of
\* validate_actions is swallowed and leaves the object to the slots.
direct_check(obj, act) ==
    LET r == validate_actions(act, ObjectTree)
    IN  IF r = "True" THEN "match" ELSE "slots"

\* Lines 437-451: the clip's slots in order; the first slot whose curves
\* all resolve records the object.
slot_check(obj, act) ==
    LET try[i \in 1..(Len(act.slots) + 1)] ==
            IF i > Len(act.slots) THEN "no match"
            ELSE IF validate_fcurves_for_object(get_fcurves_for_slot(act, i), obj,
                                                act.slots[i].target_id_type)
                 THEN "match"
                 ELSE try[i + 1]
    IN  try[1]

\* One round of the loop without the read-only test of line 423.
check_object_ignoring_lock(obj, act) ==
    IF obj.animation_data = "none" THEN "skip"
    ELSE LET d == direct_check(obj, act)
         IN  IF d = "slots" THEN slot_check(obj, act) ELSE d

\* Lines 418-451, one round of the loop over the candidate objects.
check_object(obj, act) ==
    IF obj.animation_data = "none" THEN "skip"
    ELSE IF obj.animation_data = "readonly" THEN "skip"
    ELSE LET d == direct_check(obj, act)
         IN  IF d = "slots" THEN slot_check(obj, act) ELSE d

\* The name put in front of the list instead of at its end.
record_match_front(names, obj) == <<obj.name>> \o names

\* Lines 431 and 448: compatible_objects.append(obj.name)
record_match(names, obj) == Append(names, obj.name)

\* Line 405 without its "not action.fcurves".
action_is_absent(act) == act = NoAction

\* Line 405: the clip is absent or has no curves.
action_is_empty(act) == act = NoAction \/ act.fcurves = <<>>

Return(is_compatible, compatible_objects) ==
    [kind |-> "return", is_compatible |-> is_compatible,
     compatible_objects |-> compatible_objects]

Raise(error) == [kind |-> "raise", error |-> error]

\* Line 413 answering "compatible".
no_objects_result_true == [kind |-> "return", is_compatible |-> TRUE, compatible_objects |-> <<>>]

\* Line 413: the result when there is no object to export.
no_objects_result == Return(FALSE, <<>>)

\* is_action_compatible_with_export.  loop[i] is compatible_objects after the
\* first i candidate objects (or the error that left the loop).
is_action_compatible_with_export(scene, ctx, op, act) ==
    IF action_is_empty(act) THEN Return(TRUE, <<>>)
    ELSE LET ctx_objects == get_context_objects_for_export(scene, ctx, op)
             loop[i \in 0..Len(ctx_objects)] ==
                 IF i = 0 THEN [kind |-> "list", names |-> <<>>]
                 ELSE IF loop[i - 1].kind = "raise" THEN loop[i - 1]
                 ELSE LET r == check_object(ctx_objects[i], act)
                      IN  IF r = "match"
                          THEN [kind |-> "list",
                                names |-> record_match(loop[i - 1].names, ctx_objects[i])]
                          ELSE IF r \in {"skip", "no match"} THEN loop[i - 1]
                          ELSE Raise(r)
             compatible_objects == loop[Len(ctx_objects)]
         IN  IF ctx_objects = <<>> THEN no_objects_result
             ELSE IF compatible_objects.kind = "raise" THEN compatible_objects
             ELSE Return(Len(compatible_objects.names) > 0, compatible_objects.names)

NoResult == [kind |-> "none"]

InitClassify ==
    /\ pc = "ready"
    /\ objects \in Scenes
    /\ \E s \in Settings : context = s[1] /\ operator = s[2]
    /\ action \in Actions \cup {NoAction}
    /\ result = NoResult
    /\ rotation = <<>> /\ geometry = <<>> /\ selected = {} /\ active = ""
    /\ returned = <<>> /\ start = <<>> /\ history = <<>>
    /\ Unused(batch) /\ Unused(actions) /\ Unused(selected_actions) /\ Unused(operator_ref)
    /\ Unused(groups) /\ Unused(selected_animation_groups) /\ Unused(redraw)

\* A call of is_action_compatible_with_export(context, operator, action).
\* The call, had it deselected the objects it looked at.
Classify_deselecting ==
    /\ pc = "ready"
    /\ result' = is_action_compatible_with_export(objects, context, operator, action)
    /\ pc' = "done"
    /\ objects' = [i \in DOMAIN objects |-> [objects[i] EXCEPT !.select = FALSE]]
    /\ UNCHANGED <<context, operator, action>>
    /\ UNCHANGED <<bakeVars, batchVars, listVars>>

Classify ==
    /\ pc = "ready"
    /\ result' = is_action_compatible_with_export(objects, context, operator, action)
    /\ pc' = "done"
    /\ UNCHANGED <<objects, context, operator, action>>
    /\ UNCHANGED <<bakeVars, batchVars, listVars>>

NextClassify == Classify

SpecClassify == InitClassify /\ [][NextClassify]_vars

\* The call made a second time with the same arguments, on the scene the
\* first call left.
ClassifyAgain ==
    /\ pc = "done"
    /\ result' = is_action_compatible_with_export(objects, context, operator, action)
    /\ pc' = "again"
    /\ UNCHANGED <<objects, context, operator, action>>
    /\ UNCHANGED <<bakeVars, batchVars, listVars>>

NextTwice == Classify \/ ClassifyAgain

SpecTwice == InitClassify /\ [][NextTwice]_vars

(***************************************************************************)
(* Part 2: the bake / unbake transform (bake_transform.py).                *)
(*                                                                         *)
(* Angles are integers in units of 2^-25 rad.  rotation_euler holds        *)
(* single-precision floats: a value of magnitude in [2^k, 2^(k+1)) rad is  *)
(* a multiple of 2^(k-23) rad.  The model keeps that spacing from 0.25 rad *)
(* up, and a spacing of one unit below 0.25 rad (where a float is finer).  *)
(* The sum of a float and the double BAKE_ROTATION_X is exact before it is *)
(* stored back as a float, so one rounding per += or -=.                   *)
(***************************************************************************)

\* 0.5 rad in units.
HalfRadian == 2^24

\* math.radians(90) = 1.5707963... rad = 52707178.53 units.  The odd value
\* keeps a sum with a float off the midpoint of two floats, as the double is.
BAKE_ROTATION_X == 52707179

\* 1e-6 rad = 33.55 units: a whole number of units is below it iff below 34.
BAKE_TOLERANCE == 34

Abs(v) == IF v < 0 THEN -v ELSE v

\* The spacing of the floats of magnitude a.
RECURSIVE Spacing(_)
Spacing(a) == IF a < HalfRadian THEN 1 ELSE 2 * Spacing(a \div 2)

\* The float a value is stored as: the nearest multiple of the spacing, a
\* tie going to the even multiple.
ToFloat32(v) ==
    LET a == Abs(v)
        g == Spacing(a)
        lo == (a \div g) * g
        r == a - lo
        m == IF 2 * r < g THEN lo
             ELSE IF 2 * r > g THEN lo + g
             ELSE IF (lo \div g) % 2 = 0 THEN lo ELSE lo + g
    IN  IF v < 0 THEN -m ELSE m

\* Lines 51-53 and 91-93: a component of magnitude below the tolerance becomes 0.
snap(v) == IF Abs(v) < BAKE_TOLERANCE THEN 0 ELSE v

\* Lines 47-53 with the sign of the offset turned.
bake_rotation_minus(r) ==
    [i \in 1..3 |-> snap(IF i = 1 THEN ToFloat32(r[1] - BAKE_ROTATION_X) ELSE r[i])]

\* Lines 47-53: final_rotation, the original rotation with 90 degrees added
\* to X, snapped.
bake_rotation(r) ==
    [i \in 1..3 |-> snap(IF i = 1 THEN ToFloat32(r[1] + BAKE_ROTATION_X) ELSE r[i])]

\* Lines 87-93 without the subtraction.
revert_rotation_kept(r) == [i \in 1..3 |-> snap(r[i])]

\* Lines 87-93: original_rotation, the current rotation with 90 degrees
\* subtracted from X, snapped.
revert_rotation(r) ==
    [i \in 1..3 |-> snap(IF i = 1 THEN ToFloat32(r[1] - BAKE_ROTATION_X) ELSE r[i])]

ZeroRotation == <<0, 0, 0>>

\* The rotation transform.rotate(value, orient_axis='X') leaves on an object
\* whose rotation was (0, 0, 0).
rotated(value) == <<ToFloat32(value), 0, 0>>

\* transform_apply applied once more only when nothing is baked in yet.
apply_rotation_guarded(g, degrees) == IF g = 0 THEN (g + degrees) % 360 ELSE g

\* transform_apply(rotation=True): the object's rotation about local X goes
\* into its data.
apply_rotation(g, degrees) == (g + degrees) % 360

\* The objects of the scene.
BakeObjects == {"Body", "Rig"}

NoObject == "None"

\* The rotations an object starts with, all of them floats: (0, 0, 0);
\* (10, 20, 30) degrees; -90 degrees about X with a Y below and a Z above the
\* tolerance; 28 units (8.3e-7 rad) short of -90 degrees; 15 rad; 31 rad plus
\* one float spacing, and its negative (the floats from 32 rad up are 128
\* units apart, those below 64).
StartRotations ==
    { <<0, 0, 0>>,
      <<5856353, 11712706, 17569060>>,
      <<-52707180, 10, 80>>,
      <<-52707208, 0, 0>>,
      <<503316480, 0, -16>>,
      <<1040187456, 0, 0>>,
      <<-1040187456, 0, 0>> }

\* The bpy.ops call that raises in a call, if any.
Faults == {"none", "select_all", "rotate", "transform_apply"}

Entry(op, ok, rot, geo) == [op |-> op, ok |-> ok, rotation |-> rot, geometry |-> geo]

\* Calls made so far.
Calls == LET n[S \in SUBSET BakeObjects] ==
                 IF S = {} THEN 0
                 ELSE LET o == CHOOSE x \in S : TRUE IN Len(history[o]) + n[S \ {o}]
         IN  n[BakeObjects]

InitBake ==
    /\ pc = "bake" /\ objects = <<>> /\ context = <<>> /\ operator = <<>>
    /\ action = NoAction /\ result = NoResult
    /\ \E t \in BakeObjects, r \in StartRotations :
          rotation = [o \in BakeObjects |-> IF o = t THEN r ELSE ZeroRotation]
    /\ geometry = [o \in BakeObjects |-> 0]
    /\ selected \in {{}, BakeObjects}
    /\ active \in {NoObject, "Rig"}
    /\ returned = <<>>
    /\ start = [o \in BakeObjects |-> [rotation |-> rotation[o], geometry |-> geometry[o]]]
    /\ history = [o \in BakeObjects |-> <<>>]
    /\ Unused(batch) /\ Unused(actions) /\ Unused(selected_actions) /\ Unused(operator_ref)
    /\ Unused(groups) /\ Unused(selected_animation_groups) /\ Unused(redraw)

\* The state the bake functions read and write.
State ==
    [rotation |-> rotation, geometry |-> geometry, selected |-> selected,
     active |-> active, history |-> history]

\* Lines 21-63: the state one call of apply_bake_transform leaves; fault
\* names the bpy.ops call that raises.
bake_object(st, obj, fault) ==
    LET original_rotation == st.rotation[obj]
        rot == CASE fault = "select_all" -> st.rotation[obj]
                 [] fault = "rotate" -> ZeroRotation
                 [] fault = "transform_apply" -> rotated(-BAKE_ROTATION_X)
                 [] OTHER -> bake_rotation(original_rotation)
        geo == IF fault = "none" THEN apply_rotation(st.geometry[obj], -90)
               ELSE st.geometry[obj]
    IN  [rotation |-> [st.rotation EXCEPT ![obj] = rot],
         geometry |-> [st.geometry EXCEPT ![obj] = geo],
         selected |-> IF fault = "select_all" THEN st.selected ELSE {obj},
         active |-> IF fault = "select_all" THEN st.active ELSE obj,
         history |-> [st.history EXCEPT
                         ![obj] = Append(@, Entry("bake", fault = "none", rot, geo))]]

\* Lines 76-120: the state one call of revert_bake_transform leaves.
revert_object(st, obj, fault) ==
    LET original_rotation == revert_rotation(st.rotation[obj])
        rot == CASE fault = "select_all" -> st.rotation[obj]
                 [] fault = "rotate" -> ZeroRotation
                 [] fault = "transform_apply" -> rotated(BAKE_ROTATION_X)
                 [] OTHER -> original_rotation
        geo == IF fault = "none" THEN apply_rotation(st.geometry[obj], 90)
               ELSE st.geometry[obj]
    IN  [rotation |-> [st.rotation EXCEPT ![obj] = rot],
         geometry |-> [st.geometry EXCEPT ![obj] = geo],
         selected |-> IF fault = "select_all" THEN st.selected ELSE {obj},
         active |-> IF fault = "select_all" THEN st.active ELSE obj,
         history |-> [st.history EXCEPT
                         ![obj] = Append(@, Entry("unbake", fault = "none", rot, geo))]]

\* The variables take the state st.
Becomes(st) ==
    /\ rotation' = st.rotation
    /\ geometry' = st.geometry
    /\ selected' = st.selected
    /\ active' = st.active
    /\ history' = st.history

\* apply_bake_transform(obj, context)
apply_bake_transform(obj, fault) ==
    /\ pc = "bake" /\ Calls < MaxOps
    /\ LET original_active == active
           original_selected == obj \in selected
       IN  /\ Becomes(bake_object(State, obj, fault))
           /\ returned' = <<fault = "none", original_active, original_selected>>
    /\ UNCHANGED <<start, pc, objects, context, operator, action, result,
                   batchVars, listVars>>

\* revert_bake_transform(obj, context)
revert_bake_transform(obj, fault) ==
    /\ pc = "bake" /\ Calls < MaxOps
    /\ LET original_active == active
           original_selected == obj \in selected
       IN  /\ Becomes(revert_object(State, obj, fault))
           /\ returned' = <<fault = "none", original_active, original_selected>>
    /\ UNCHANGED <<start, pc, objects, context, operator, action, result,
                   batchVars, listVars>>

NextBake ==
    \E obj \in BakeObjects, fault \in Faults :
        \/ apply_bake_transform(obj, fault)
        \/ revert_bake_transform(obj, fault)

SpecBake == InitBake /\ [][NextBake]_vars

(***************************************************************************)
(* Part 3: the batch calls (bake_transform.py, lines 123-200).             *)
(***************************************************************************)

\* Lines 137 and 170: the object types a batch processes.
EligibleTypes == {"MESH", "CURVE", "SURFACE", "META", "FONT", "ARMATURE", "EMPTY"}

\* The objects of the scene of the batch calls, and obj.type of each.
BatchTypes == [Body |-> "MESH", Rig |-> "ARMATURE", Prop |-> "EMPTY", Lamp |-> "LIGHT"]

BatchScene == DOMAIN BatchTypes

\* The object lists handed to a batch call.
BatchLists == { <<"Lamp">>, <<"Body", "Rig", "Prop">>, <<"Rig", "Lamp", "Body">> }

\* Which of transform.rotate and transform_apply raises for which object.
GeometryFaults ==
    { [o \in BatchScene |-> "none"],
      [o \in BatchScene |-> IF o = "Rig" THEN "rotate" ELSE "none"],
      [o \in BatchScene |-> IF o = "Rig" THEN "transform_apply" ELSE "none"],
      [o \in BatchScene |-> IF o = "Body" THEN "transform_apply" ELSE "rotate"] }

\* object.select_all raises when its poll() rejects the context, which no
\* step of a batch changes: it raises in every call of one batch or in none.
faults_of(poll, plan) == IF poll THEN plan ELSE [o \in BatchScene |-> "select_all"]

\* original_selection=None, and original_selection given as a list.
NoSelection == [given |-> FALSE, objects |-> <<>>]

Selection(objs) == [given |-> TRUE, objects |-> objs]

BatchReturn(value) == [kind |-> "return", value |-> value]

\* Lines 157 and 200 answering success whatever the count.
overall_success_always(success_count) == success_count >= 0

\* Lines 157 and 200: success_count > 0
overall_success(success_count) == success_count > 0

\* Lines 136-142 leaving the loop at the first failure.
RECURSIVE process_until_failure(_, _, _, _)
process_until_failure(op, objs, faults, acc) ==
    IF objs = <<>> THEN acc
    ELSE LET obj == Head(objs)
             ok == faults[obj] = "none"
         IN  IF BatchTypes[obj] \notin EligibleTypes
             THEN process_until_failure(op, Tail(objs), faults, acc)
             ELSE LET st == IF op = "bake" THEN bake_object(acc.st, obj, faults[obj])
                            ELSE revert_object(acc.st, obj, faults[obj])
                  IN  IF ok
                      THEN process_until_failure(op, Tail(objs), faults,
                               [acc EXCEPT !.st = st, !.success_count = @ + 1])
                      ELSE [acc EXCEPT !.st = st, !.failed_objects = Append(@, obj)]

\* Lines 136-142 and 169-175: the loop over the objects of a batch.
RECURSIVE process(_, _, _, _)
process(op, objs, faults, acc) ==
    IF objs = <<>> THEN acc
    ELSE LET obj == Head(objs)
             ok == faults[obj] = "none"
         IN  IF BatchTypes[obj] \notin EligibleTypes
             THEN process(op, Tail(objs), faults, acc)
             ELSE LET st == IF op = "bake" THEN bake_object(acc.st, obj, faults[obj])
                            ELSE revert_object(acc.st, obj, faults[obj])
                  IN  process(op, Tail(objs), faults,
                          IF ok THEN [acc EXCEPT !.st = st, !.success_count = @ + 1]
                          ELSE [acc EXCEPT !.st = st, !.failed_objects = Append(@, obj)])

\* Lines 133-134 and 166-167.
LoopStart == [st |-> State, success_count |-> 0, failed_objects |-> <<>>]

\* What a batch call records of itself: its arguments, the state it found,
\* what its loop printed as failed, and what the last batch bake returned.
Called(op, objs, faults, restore, failed_objects, saved) ==
    [calls |-> batch.calls + 1, op |-> op, objects |-> objs, faults |-> faults,
     restore |-> restore, before |-> State, failed_objects |-> failed_objects,
     saved |-> saved]

NotSaved == [original_active |-> NoObject, original_selection |-> NoSelection]

InitBatch ==
    /\ pc = "batch" /\ objects = <<>> /\ context = <<>> /\ operator = <<>>
    /\ action = NoAction /\ result = NoResult
    /\ rotation = [o \in BatchScene |->
                      CASE o = "Body" -> <<5856353, 11712706, 17569060>>
                        [] o = "Prop" -> <<-52707180, 10, 80>>
                        [] OTHER -> ZeroRotation]
    /\ geometry = [o \in BatchScene |-> 0]
    /\ selected \in SUBSET {"Body", "Lamp"}
    /\ active \in {NoObject, "Body", "Lamp"}
    /\ returned = <<>>
    /\ start = [o \in BatchScene |-> [rotation |-> rotation[o], geometry |-> geometry[o]]]
    /\ history = [o \in BatchScene |-> <<>>]
    /\ batch = [calls |-> 0, saved |-> NotSaved]
    /\ Unused(actions) /\ Unused(selected_actions) /\ Unused(operator_ref)
    /\ Unused(groups) /\ Unused(selected_animation_groups) /\ Unused(redraw)

\* apply_bake_transform_to_objects(objects, context)
apply_bake_transform_to_objects(objs, poll, plan) ==
    /\ pc = "batch" /\ batch.calls < MaxBatches
    /\ LET original_active == active
           original_selection == SelectSeq(objs, LAMBDA o : o \in selected)
           faults == faults_of(poll, plan)
           loop == process("bake", objs, faults, LoopStart)
           saved == [original_active |-> original_active,
                     original_selection |-> Selection(original_selection)]
       IN  IF ~poll
           THEN \* line 145 raises
                /\ Becomes(loop.st)
                /\ returned' = Raise("RuntimeError")
                /\ batch' = Called("bake", objs, faults, NotSaved,
                                   loop.failed_objects, batch.saved)
           ELSE /\ Becomes([loop.st EXCEPT
                               !.selected = {original_selection[i] :
                                                i \in DOMAIN original_selection},
                               !.active = IF original_active # NoObject
                                          THEN original_active ELSE @])
                /\ returned' = BatchReturn(<<overall_success(loop.success_count),
                                             original_active, original_selection>>)
                /\ batch' = Called("bake", objs, faults, NotSaved,
                                   loop.failed_objects, saved)
    /\ UNCHANGED <<start, pc, objects, context, operator, action, result, listVars>>

\* revert_bake_transform_from_objects(objects, context, original_active,
\* original_selection); restore is what the caller passes for the last two.
revert_bake_transform_from_objects(objs, poll, plan, restore) ==
    /\ pc = "batch" /\ batch.calls < MaxBatches
    /\ LET original_active == restore.original_active
           original_selection == restore.original_selection
           faults == faults_of(poll, plan)
           loop == process("unbake", objs, faults, LoopStart)
       IN  /\ batch' = Called("unbake", objs, faults, restore,
                              loop.failed_objects, batch.saved)
           /\ IF original_selection # NoSelection /\ ~poll
              THEN \* line 179 raises
                   /\ Becomes(loop.st)
                   /\ returned' = Raise("RuntimeError")
              ELSE /\ Becomes([loop.st EXCEPT
                                  !.selected = IF original_selection # NoSelection
                                               THEN {original_selection.objects[i] :
                                                        i \in DOMAIN original_selection.objects}
                                               ELSE @,
                                  !.active = IF original_active # NoObject
                                             THEN original_active ELSE @])
                   /\ returned' = BatchReturn(overall_success(loop.success_count))
    /\ UNCHANGED <<start, pc, objects, context, operator, action, result, listVars>>

NextBatch ==
    \E objs \in BatchLists, poll \in BOOLEAN, plan \in GeometryFaults,
       given \in BOOLEAN :
        \/ apply_bake_transform_to_objects(objs, poll, plan)
        \/ revert_bake_transform_from_objects(objs, poll, plan,
                IF given THEN batch.saved ELSE NotSaved)

SpecBatch == InitBatch /\ [][NextBatch]_vars

(***************************************************************************)
(* Part 4: the clip list of the export panel (anim_utils.py, lines         *)
(* 147-198 and 457-519).  bpy.data.actions is a function from the names of *)
(* the available clips to the clips; the user adds, removes and renames    *)
(* clips and ticks items between the calls of the code.                    *)
(***************************************************************************)

\* The names a clip can have, in the order bpy.data.actions lists them.
ClipNames == <<"Idle", "Run", "Walk">>

\* What a clip can hold: a curve found on every object, or a curve found on
\* shape keys only.
ClipContents ==
    { [fcurves |-> <<[data_path |-> "location", array_index |-> 1]>>, slots |-> <<>>],
      [fcurves |-> <<[data_path |-> "eval_time", array_index |-> 0]>>, slots |-> <<>>] }

\* The export operator of the panel.
ListOperator(use_selection, export_actions, export_groups) ==
    [use_active_collection |-> FALSE, collection |-> NoCollection,
     use_selection |-> use_selection, use_visible |-> FALSE, object_types |-> {},
     bake_anim_export_actions |-> export_actions,
     bake_anim_export_animation_groups |-> export_groups]

\* The scene of the panel: a mesh without shape keys and an unselected curve.
ListScene == <<ObjectPool[1], ObjectPool[5]>>

\* list(bpy.data.actions)
available_actions(acts) == SelectSeq(ClipNames, LAMBDA n : n \in DOMAIN acts)

\* ActionSelectionItem
Item(name, sel) == [name |-> name, action |-> name, selected |-> sel]

\* Lines 457-476: populate_action_list, the items it leaves.
populate(items, acts, scene, ctx, op) ==
    LET av == available_actions(acts)
    IN  IF Len(items) # Len(av)
        THEN [i \in 1..Len(av) |->
                 Item(av[i],
                      IF op.bake_anim_export_actions
                      THEN is_action_compatible_with_export(scene, ctx, op,
                                                            acts[av[i]]).is_compatible
                      ELSE TRUE)]
        ELSE items

\* Line 519: get_selected_action_names
get_selected_action_names(items) ==
    {items[i].action : i \in {j \in DOMAIN items : items[j].selected}}

InitActions ==
    /\ pc = "panel"
    /\ objects = ListScene
    /\ context = [view_layer |-> TRUE]
    /\ \E sel, ea \in BOOLEAN : operator = ListOperator(sel, ea, FALSE)
    /\ action = NoAction /\ result = NoResult
    /\ rotation = <<>> /\ geometry = <<>> /\ selected = {} /\ active = ""
    /\ returned = <<>> /\ start = <<>> /\ history = <<>>
    /\ Unused(batch)
    /\ actions = <<>>
    /\ selected_actions = <<>>
    /\ operator_ref = FALSE
    /\ Unused(groups) /\ Unused(selected_animation_groups) /\ Unused(redraw)

ActionsFrame ==
    UNCHANGED <<objects, context, operator, action, result, bakeVars, batchVars,
                groups, selected_animation_groups, redraw>>

\* The user creates a clip.
new_clip(name, content) ==
    /\ name \notin DOMAIN actions
    /\ Cardinality(DOMAIN actions) < MaxClips
    /\ actions' = [n \in DOMAIN actions \cup {name} |->
                      IF n = name THEN content ELSE actions[n]]
    /\ pc' = "new_clip"
    /\ UNCHANGED <<selected_actions, operator_ref>>
    /\ ActionsFrame

\* The user deletes a clip.
remove_clip(name) ==
    /\ name \in DOMAIN actions
    /\ actions' = [n \in DOMAIN actions \ {name} |-> actions[n]]
    /\ pc' = "remove_clip"
    /\ UNCHANGED <<selected_actions, operator_ref>>
    /\ ActionsFrame

\* The user renames a clip.
rename_clip(name, new_name) ==
    /\ name \in DOMAIN actions /\ new_name \notin DOMAIN actions
    /\ actions' = [n \in (DOMAIN actions \ {name}) \cup {new_name} |->
                      IF n = new_name THEN actions[name] ELSE actions[n]]
    /\ pc' = "rename_clip"
    /\ UNCHANGED <<selected_actions, operator_ref>>
    /\ ActionsFrame

\* The user ticks or unticks an item of the list.
toggle_action(i) ==
    /\ i \in DOMAIN selected_actions
    /\ selected_actions' = [selected_actions EXCEPT ![i].selected = ~@]
    /\ pc' = "toggle_action"
    /\ UNCHANGED <<actions, operator_ref>>
    /\ ActionsFrame

\* populate_action_list(operator)
populate_action_list ==
    /\ selected_actions' = populate(selected_actions, actions, objects, context, operator)
    /\ pc' = "populate_action_list"
    /\ UNCHANGED <<actions, operator_ref>>
    /\ ActionsFrame

\* Lines 479-495: draw_action_selection_ui, one redraw of the panel.
draw_action_selection_ui ==
    /\ selected_actions' = populate(selected_actions, actions, objects, context, operator)
    /\ operator_ref' = (operator_ref \/ available_actions(actions) # <<>>)
    /\ pc' = "draw_action_selection_ui"
    /\ UNCHANGED actions
    /\ ActionsFrame

\* Lines 157-161 and 174-178: the All and None buttons.
select_all_actions(value) ==
    /\ selected_actions' = IF operator_ref
                           THEN [i \in DOMAIN selected_actions |->
                                    [selected_actions[i] EXCEPT !.selected = value]]
                           ELSE selected_actions
    /\ pc' = "select_all_actions"
    /\ UNCHANGED <<actions, operator_ref>>
    /\ ActionsFrame

\* Lines 193-197: the items ACTION_OT_select_compatible_actions.execute leaves.
select_compatible(items, acts, scene, ctx, op) ==
    [i \in DOMAIN items |->
        IF items[i].action \in DOMAIN acts
        THEN [items[i] EXCEPT !.selected =
                 is_action_compatible_with_export(scene, ctx, op,
                                                  acts[items[i].action]).is_compatible]
        ELSE items[i]]

\* ACTION_OT_select_compatible_actions.execute(context)
select_compatible_actions ==
    /\ selected_actions' = IF operator_ref
                           THEN select_compatible(selected_actions, actions, objects,
                                                  context, operator)
                           ELSE selected_actions
    /\ pc' = "select_compatible_actions"
    /\ UNCHANGED <<actions, operator_ref>>
    /\ ActionsFrame

NextActions ==
    \/ \E i \in 1..Len(ClipNames), content \in ClipContents : new_clip(ClipNames[i], content)
    \/ \E i \in 1..Len(ClipNames) : remove_clip(ClipNames[i])
    \/ \E i, j \in 1..Len(ClipNames) : rename_clip(ClipNames[i], ClipNames[j])
    \/ \E i \in 1..Len(ClipNames) : toggle_action(i)
    \/ populate_action_list
    \/ draw_action_selection_ui
    \/ \E value \in BOOLEAN : select_all_actions(value)
    \/ select_compatible_actions

SpecActions == InitActions /\ [][NextActions]_vars

(***************************************************************************)
(* Part 5: the animation groups (anim_utils.py, lines 226-288, 522-614).   *)
(***************************************************************************)

\* The groups a scene can hold, in order: group.name, group.action (the
\* designated clip, or NoAction) and the assigned_object of each of its
\* slot_assignments (NoObject when unset).
GroupPool ==
    << [name |-> "Walk",
        action |-> [fcurves |-> <<[data_path |-> "eval_time", array_index |-> 0]>>,
                    slots |-> <<>>],
        slot_assignments |-> <<"Plane">>],
       [name |-> "Pose", action |-> NoAction, slot_assignments |-> <<"Plane">>],
       [name |-> "Fly",
        action |-> [fcurves |-> <<[data_path |-> "location", array_index |-> 1]>>,
                    slots |-> <<>>],
        slot_assignments |-> <<NoObject, "Path">>],
       [name |-> "Rest",
        action |-> [fcurves |-> <<[data_path |-> "location", array_index |-> 1]>>,
                    slots |-> <<>>],
        slot_assignments |-> <<NoObject>>] >>

\* get_animation_groups_data() giving None: Action Binder is not enabled, or
\* the scene has no animation_groups_data.
NoGroupsData == [present |-> FALSE, groups |-> <<>>]

GroupsData == {NoGroupsData} \cup
              {[present |-> TRUE, groups |-> g] : g \in SubLists(GroupPool, MaxGroups)}

\* The group names asked about.
GroupNames == {"Walk", "Pose", "Fly", "Rest", "Gone"}

\* Line 537 taking every group as having a clip.
has_action_always(group) == TRUE

\* Line 537: target_group.action
has_action(group) == group.action # NoAction

\* Lines 530-535: the first group of that name, as a list of at most one.
target_group(data, group_name) ==
    LET found == SelectSeq(data.groups, LAMBDA g : g.name = group_name)
    IN  IF found = <<>> THEN <<>> ELSE <<found[1]>>

\* Lines 546-549: assigned_objects, by name.
assigned_objects(group) ==
    SelectSeq(group.slot_assignments, LAMBDA o : o # NoObject)

\* is_animation_group_compatible_with_export(context, operator, group_name)
is_animation_group_compatible_with_export(data, scene, ctx, op, group_name) ==
    IF ~data.present THEN FALSE
    ELSE LET target == target_group(data, group_name)
         IN  IF target = <<>> THEN FALSE
             ELSE IF ~has_action(target[1]) THEN FALSE
             ELSE LET ctx_objects == get_context_objects_for_export(scene, ctx, op)
                      assigned == assigned_objects(target[1])
                  IN  IF ctx_objects = <<>> THEN FALSE
                      ELSE IF assigned = <<>> THEN FALSE
                      ELSE {ctx_objects[i].name : i \in DOMAIN ctx_objects}
                               \cap {assigned[i] : i \in DOMAIN assigned} # {}

\* AnimationGroupSelectionItem
GroupItem(name, sel) == [name |-> name, group_name |-> name, selected |-> sel]

\* Lines 562-593: the items populate_animation_group_list leaves.
populate_groups(items, data, scene, ctx, op) ==
    IF ~data.present THEN <<>>
    ELSE IF Len(items) # Len(data.groups)
    THEN LET with_action == SelectSeq(data.groups, has_action)
         IN  [i \in 1..Len(with_action) |->
                 GroupItem(with_action[i].name,
                           IF op.bake_anim_export_animation_groups
                           THEN is_animation_group_compatible_with_export(
                                    data, scene, ctx, op, with_action[i].name)
                           ELSE TRUE)]
    ELSE items

NotDrawn == [populated |-> FALSE, found |-> <<>>]

InitGroups ==
    /\ pc = "panel"
    /\ objects = ListScene
    /\ context = [view_layer |-> TRUE]
    /\ \E sel, eg \in BOOLEAN : operator = ListOperator(sel, FALSE, eg)
    /\ action = NoAction /\ result = NoResult
    /\ rotation = <<>> /\ geometry = <<>> /\ selected = {} /\ active = ""
    /\ returned = <<>> /\ start = <<>> /\ history = <<>>
    /\ Unused(batch) /\ Unused(actions) /\ Unused(selected_actions)
    /\ operator_ref = FALSE
    /\ groups \in GroupsData
    /\ selected_animation_groups = <<>>
    /\ redraw = NotDrawn

GroupsFrame ==
    UNCHANGED <<objects, context, operator, action, bakeVars, batchVars,
                actions, selected_actions, groups>>

\* A call of is_animation_group_compatible_with_export
check_group(group_name) ==
    /\ result' = [kind |-> "return", group_name |-> group_name,
                  is_compatible |-> is_animation_group_compatible_with_export(
                                        groups, objects, context, operator, group_name)]
    /\ pc' = "is_animation_group_compatible_with_export"
    /\ UNCHANGED <<selected_animation_groups, operator_ref, redraw>>
    /\ GroupsFrame

\* The user ticks or unticks an item of the list.
toggle_group(i) ==
    /\ i \in DOMAIN selected_animation_groups
    /\ selected_animation_groups' = [selected_animation_groups EXCEPT ![i].selected = ~@]
    /\ pc' = "toggle_group"
    /\ UNCHANGED <<result, operator_ref, redraw>>
    /\ GroupsFrame

\* populate_animation_group_list(operator)
populate_animation_group_list ==
    /\ selected_animation_groups' =
          populate_groups(selected_animation_groups, groups, objects, context, operator)
    /\ redraw' = [populated |-> TRUE, found |-> selected_animation_groups]
    /\ result' = [kind |-> "redraw", first |-> ~redraw.populated]
    /\ pc' = "populate_animation_group_list"
    /\ UNCHANGED operator_ref
    /\ GroupsFrame

\* Lines 596-614: draw_animation_group_selection_ui, one redraw of the panel.
draw_animation_group_selection_ui ==
    /\ selected_animation_groups' =
          populate_groups(selected_animation_groups, groups, objects, context, operator)
    /\ redraw' = [populated |-> TRUE, found |-> selected_animation_groups]
    /\ result' = [kind |-> "redraw", first |-> ~redraw.populated]
    /\ operator_ref' = (operator_ref \/ groups.groups # <<>>)
    /\ pc' = "draw_animation_group_selection_ui"
    /\ GroupsFrame

\* Lines 235-244 and 256-265: the All and None buttons.
select_all_groups(value) ==
    /\ selected_animation_groups' =
          IF operator_ref
          THEN [i \in DOMAIN selected_animation_groups |->
                   [selected_animation_groups[i] EXCEPT !.selected = value]]
          ELSE selected_animation_groups
    /\ pc' = "select_all_groups"
    /\ UNCHANGED <<result, operator_ref, redraw>>
    /\ GroupsFrame

\* ANIMATION_GROUP_OT_select_compatible_groups.execute(context)
select_compatible_groups ==
    /\ selected_animation_groups' =
          IF operator_ref
          THEN [i \in DOMAIN selected_animation_groups |->
                   [selected_animation_groups[i] EXCEPT !.selected =
                       is_animation_group_compatible_with_export(
                           groups, objects, context, operator,
                           selected_animation_groups[i].group_name)]]
          ELSE selected_animation_groups
    /\ pc' = "select_compatible_groups"
    /\ UNCHANGED <<result, operator_ref, redraw>>
    /\ GroupsFrame

NextGroups ==
    \/ \E group_name \in GroupNames : check_group(group_name)
    \/ \E i \in 1..Len(GroupPool) : toggle_group(i)
    \/ populate_animation_group_list
    \/ draw_animation_group_selection_ui
    \/ \E value \in BOOLEAN : select_all_groups(value)
    \/ select_compatible_groups

SpecGroups == InitGroups /\ [][NextGroups]_vars

(***************************************************************************)
(* Claims about the classifier, checked under SpecClassify.                *)
(***************************************************************************)

\* The candidate objects of the call.
Candidates == get_context_objects_for_export(objects, context, operator)

\* The clip has at least one curve.
HasCurves == action # NoAction /\ action.fcurves # <<>>

\* The names the call reported as matches.
Matched == IF result.kind = "return"
           THEN { result.compatible_objects[i] : i \in DOMAIN result.compatible_objects }
           ELSE {}

\* What the host resolves, stated without the classifier's code: a full
\* path of an object, a bare data path of an object, of a shape-key block.
OnObject(fc) == fc.data_path = "location" /\ fc.array_index \in 0..2
PathOnObject(fc) == fc.data_path = "location"
PathOnShapeKeys(fc) == fc.data_path = "eval_time"
All(fcurves, P(_)) == \A i \in DOMAIN fcurves : P(fcurves[i])
HasShapeKeyBlock(o) == o.type = "MESH" /\ o.shape_keys

\* C1: a clip with no curves, or no clip at all, and a non-empty candidate
\* set give (True, []).
C1_EmptyClipIsValidWithoutMatches ==
    (pc = "done" /\ ~HasCurves /\ Candidates # <<>>)
        => result = [kind |-> "return", is_compatible |-> TRUE, compatible_objects |-> <<>>]

\* C1's case: a clip with slots and no curves, and a candidate that can be animated.
C1_Witness ==
    /\ pc = "done" /\ action # NoAction /\ action.fcurves = <<>> /\ action.slots # <<>>
    /\ \E i \in DOMAIN Candidates : Candidates[i].animation_data = "ok"
    /\ result.is_compatible /\ result.compatible_objects = <<>>

\* C2 as stated: every clip and an empty candidate set give (False, []).
C2_Original ==
    (pc = "done" /\ action # NoAction /\ Candidates = <<>>)
        => result = [kind |-> "return", is_compatible |-> FALSE, compatible_objects |-> <<>>]

\* C2 amended: every clip with at least one curve and an empty candidate set
\* give (False, []).
C2_EmptyCandidatesIncompatible ==
    (pc = "done" /\ HasCurves /\ Candidates = <<>>)
        => result = [kind |-> "return", is_compatible |-> FALSE, compatible_objects |-> <<>>]

\* C2's case: a clip whose curves resolve on every object, a scene with
\* objects, none of which the export settings keep.
C2_Witness ==
    /\ pc = "done" /\ HasCurves /\ All(action.fcurves, OnObject)
    /\ objects # <<>> /\ Candidates = <<>>
    /\ result.kind = "return" /\ ~result.is_compatible

\* C3: an object without animation binding, or with a read-only binding, is
\* never among the matches.
C3_UnboundOrLockedNeverMatch ==
    pc = "done" =>
        \A i \in DOMAIN objects :
            objects[i].animation_data \in {"none", "readonly"} => objects[i].name \notin Matched

\* C3's case: a locked candidate, a clip that resolves on every object, and
\* another candidate that matched.
C3_Witness ==
    /\ pc = "done" /\ HasCurves /\ All(action.fcurves, OnObject)
    /\ \E i \in DOMAIN Candidates : Candidates[i].animation_data = "readonly"
    /\ Matched # {}

\* A curve whose path exists on the object and whose index is out of range.
InvalidIndex(fc) == fc.data_path = "location" /\ fc.array_index \notin 0..2
Some(fcurves, P(_)) == \E i \in DOMAIN fcurves : P(fcurves[i])

\* C4: a clip holding a curve with an invalid array index matches no object,
\* also when the clip has slots and each slot's curves hold that curve.
C4_InvalidIndexNeverMatches ==
    (/\ pc = "done" /\ action # NoAction
     /\ Some(action.fcurves, InvalidIndex)
     /\ \A k \in DOMAIN action.slots : Some(action.slots[k].fcurves, InvalidIndex))
        => result = [kind |-> "return", is_compatible |-> FALSE, compatible_objects |-> <<>>]

\* Every curve of the clip resolves on an object, index included.
DirectOk == All(action.fcurves, OnObject)

\* A slot that is not a shape-key slot and whose data paths resolve on an object.
PlainSlotAccepts(sl) == sl.target_id_type # "KEY" /\ All(sl.fcurves, PathOnObject)

\* C5 as stated: an object without shape-key block is never recorded because
\* of a 'KEY' slot, whatever curves (also none) the slot holds: when it is
\* recorded, the clip resolves directly or a slot of another type accepts it.
C5_Original ==
    (pc = "done" /\ HasCurves) =>
        \A i \in DOMAIN Candidates :
            (~HasShapeKeyBlock(Candidates[i]) /\ Candidates[i].name \in Matched)
                => (DirectOk \/ \E k \in DOMAIN action.slots : PlainSlotAccepts(action.slots[k]))

\* C5 amended: a 'KEY' slot holding at least one curve never records an
\* object without shape-key block; such an object is recorded exactly when the
\* clip resolves directly, a slot of another type accepts it, or a slot holds
\* no curves at all.
C5_KeySlotNeedsShapeKeys ==
    (pc = "done" /\ HasCurves) =>
        \A i \in DOMAIN Candidates :
            (~HasShapeKeyBlock(Candidates[i]) /\ Candidates[i].animation_data = "ok")
                => (Candidates[i].name \in Matched
                      <=> \/ DirectOk
                          \/ \E k \in DOMAIN action.slots :
                                \/ action.slots[k].fcurves = <<>>
                                \/ PlainSlotAccepts(action.slots[k]))

\* C5's case: a 'KEY' slot whose curves resolve on a shape-key block, a
\* candidate with such a block that matched and one without that did not.
C5_Witness ==
    /\ pc = "done" /\ HasCurves
    /\ \E k \in DOMAIN action.slots :
          /\ action.slots[k].target_id_type = "KEY"
          /\ action.slots[k].fcurves # <<>>
          /\ All(action.slots[k].fcurves, PathOnShapeKeys)
    /\ \E i, j \in DOMAIN Candidates :
          /\ ~HasShapeKeyBlock(Candidates[i]) /\ Candidates[i].animation_data = "ok"
          /\ Candidates[i].name \notin Matched
          /\ HasShapeKeyBlock(Candidates[j]) /\ Candidates[j].name \in Matched

\* A slot accepts an object: it holds no curves, or its data paths resolve
\* on the target its type selects.
SlotAccepts(sl, o) ==
    \/ sl.fcurves = <<>>
    \/ sl.target_id_type = "KEY" /\ HasShapeKeyBlock(o) /\ All(sl.fcurves, PathOnShapeKeys)
    \/ sl.target_id_type # "KEY" /\ All(sl.fcurves, PathOnObject)

\* The clip matches an object.
MatchesClip(o) ==
    /\ o.animation_data = "ok"
    /\ DirectOk \/ \E k \in DOMAIN action.slots : SlotAccepts(action.slots[k], o)

Names(seq) == [i \in DOMAIN seq |-> seq[i].name]

\* C6: for a clip with curves and a non-empty candidate sequence the result
\* is (len(matches) > 0, matches), and matches is the candidate sequence
\* restricted to the matching objects: in candidate order, each once.
C6_MatchesInCandidateOrder ==
    (pc = "done" /\ HasCurves /\ Candidates # <<>>) =>
        /\ result.kind = "return"
        /\ result.is_compatible = (Len(result.compatible_objects) > 0)
        /\ result.compatible_objects = Names(SelectSeq(Candidates, MatchesClip))

\* C6's case: two candidates match through slots, of which both slots of the
\* clip accept the second.
C6_Witness ==
    /\ pc = "done" /\ HasCurves /\ ~DirectOk
    /\ Len(Candidates) = 2 /\ Len(result.compatible_objects) = 2
    /\ Len(action.slots) = 2
    /\ \A k \in DOMAIN action.slots : SlotAccepts(action.slots[k], Candidates[2])

\* C7: the call always returns, and every candidate the clip matches is
\* reported whatever errors the resolution raised for the candidates before it.
C7_ErrorsAreLocalNonMatches ==
    pc = "done" =>
        /\ result.kind = "return"
        /\ HasCurves =>
              \A j \in DOMAIN Candidates :
                  MatchesClip(Candidates[j]) => Candidates[j].name \in Matched
        /\ (HasCurves /\ \A j \in DOMAIN Candidates : ~MatchesClip(Candidates[j]))
              => (~result.is_compatible /\ result.compatible_objects = <<>>)

\* C7's case: the first curve raises the index error for every object; the
\* first candidate matches no slot either, the one after it is reported.
C7_Witness ==
    /\ pc = "done" /\ HasCurves /\ InvalidIndex(action.fcurves[1])
    /\ \E i, j \in DOMAIN Candidates :
          /\ i < j
          /\ Candidates[i].animation_data = "ok" /\ Candidates[i].name \notin Matched
          /\ Candidates[j].name \in Matched
(***************************************************************************)
(* Claims about bake and unbake, checked under SpecBake.                   *)
(***************************************************************************)

\* The k-th call on an object was op and returned success.
Succeeded(h, k, op) == Len(h) >= k /\ h[k].op = op /\ h[k].ok

StateOf(e) == [rotation |-> e.rotation, geometry |-> e.geometry]

\* The state of an object when its k-th call was made.
Before(o, k) == IF k = 1 THEN start[o] ELSE StateOf(history[o][k - 1])

WithinTolerance(a, b) == \A i \in 1..3 : Abs(a[i] - b[i]) < BAKE_TOLERANCE

\* No component is non-zero with a magnitude below the tolerance.
Snapped(r) == \A i \in 1..3 : r[i] = 0 \/ Abs(r[i]) >= BAKE_TOLERANCE

\* x + 90 degrees is below 32 rad.
BelowCoarseFloats(x) == x + BAKE_ROTATION_X < 64 * HalfRadian

\* A successful bake directly followed by a successful unbake of the same object.
RoundTrip(o, k) ==
    Succeeded(history[o], k, "bake") /\ Succeeded(history[o], k + 1, "unbake")

NearestFloat(v, sum) ==
    /\ Abs(v) % Spacing(Abs(v)) = 0
    /\ 2 * Abs(v - sum) <= Spacing(Abs(sum))

\* C9: a successful bake of an object at rotation (x, y, z) leaves it at
\* (x + 90 degrees, y, z), components below the tolerance written as 0, with
\* its geometry rotated by -90 degrees about local X; (10, 20, 30) degrees
\* becomes (100, 20, 30) degrees.
C9_BakeAddsQuarterTurn ==
    \A o \in BakeObjects : \A k \in 1..Len(history[o]) :
        Succeeded(history[o], k, "bake") =>
            LET b == Before(o, k)
                a == history[o][k]
                sum == b.rotation[1] + BAKE_ROTATION_X
            IN  /\ IF Abs(sum) < BAKE_TOLERANCE THEN a.rotation[1] = 0
                   ELSE NearestFloat(a.rotation[1], sum)
                /\ \A i \in 2..3 :
                      a.rotation[i] = IF Abs(b.rotation[i]) < BAKE_TOLERANCE
                                      THEN 0 ELSE b.rotation[i]
                /\ a.geometry = (b.geometry - 90) % 360
                /\ b.rotation = <<5856353, 11712706, 17569060>> =>
                      a.rotation = <<58563532, 11712706, 17569060>>

\* The object that started at (10, 20, 30) degrees, baked once.
C9_Witness ==
    \E o \in BakeObjects :
        /\ start[o].rotation = <<5856353, 11712706, 17569060>>
        /\ Len(history[o]) = 1 /\ Succeeded(history[o], 1, "bake")
        /\ rotation[o][1] = 58563532
        /\ geometry[o] = 270

\* b is a plus 90 degrees, up to one rounding and one snap.
Shifted(a, b) ==
    2 * Abs(b - (a + BAKE_ROTATION_X))
        <= 2 * BAKE_TOLERANCE + Spacing(Abs(a + BAKE_ROTATION_X))

\* C10: two successive bakes of an object compose: X is shifted by +90
\* degrees twice and the geometry by -90 degrees twice, the state after them
\* differs from the state before them and from the state between them, and
\* one unbake after them does not return to the state before them.
C10_BakeIsNotIdempotent ==
    \A o \in BakeObjects : \A k \in 1..Len(history[o]) :
        (Succeeded(history[o], k, "bake") /\ Succeeded(history[o], k + 1, "bake")) =>
            LET s0 == Before(o, k)
                s1 == StateOf(history[o][k])
                s2 == StateOf(history[o][k + 1])
            IN  /\ s2 # s0 /\ s2 # s1
                /\ Shifted(s0.rotation[1], s1.rotation[1])
                /\ Shifted(s1.rotation[1], s2.rotation[1])
                /\ s1.geometry = (s0.geometry - 90) % 360
                /\ s2.geometry = (s0.geometry - 180) % 360
                /\ Succeeded(history[o], k + 2, "unbake") =>
                      StateOf(history[o][k + 2]) # s0

\* An object baked twice and unbaked once, left as after one bake.
C10_Witness ==
    \E o \in BakeObjects :
        /\ Len(history[o]) = 3
        /\ Succeeded(history[o], 1, "bake") /\ Succeeded(history[o], 2, "bake")
        /\ Succeeded(history[o], 3, "unbake")
        /\ history[o][2].geometry = 180
        /\ geometry[o] = 270
        /\ rotation[o] # start[o].rotation

(***************************************************************************)
(* Claims about the batch calls, checked under SpecBatch.                  *)
(***************************************************************************)

\* A batch call has been made.
BatchCalled == batch.calls > 0

\* The eligible objects of the last batch call, in list order.
Eligible == SelectSeq(batch.objects, LAMBDA o : BatchTypes[o] \in EligibleTypes)

\* The last batch call made its single-object call on o.
Processed(o) == Len(history[o]) = Len(batch.before.history[o]) + 1

\* The single-object call the last batch call made on o returned success.
ObjectSucceeded(o) == Processed(o) /\ history[o][Len(history[o])].ok

\* C11: a batch call reports success iff the single-object call of at least
\* one eligible object succeeded, and when it returns the names it has listed
\* as failed are those of the eligible objects whose call failed, in list
\* order; of Body, Rig, Prop with only Rig failing it reports success and
\* lists Rig alone.
C11_BatchReportsAnySuccess ==
    BatchCalled =>
        LET reported == returned.kind = "return" /\
                        (IF batch.op = "bake" THEN returned.value[1] ELSE returned.value)
        IN  /\ reported <=> \E i \in DOMAIN Eligible : ObjectSucceeded(Eligible[i])
            /\ returned.kind = "return" =>
                  /\ batch.failed_objects =
                        SelectSeq(Eligible, LAMBDA o : ~ObjectSucceeded(o))
                  /\ \A i \in DOMAIN batch.objects :
                        BatchTypes[batch.objects[i]] \notin EligibleTypes =>
                            history[batch.objects[i]] = <<>>
            /\ (/\ batch.objects = <<"Body", "Rig", "Prop">>
                /\ ObjectSucceeded("Body") /\ ~ObjectSucceeded("Rig")
                /\ ObjectSucceeded("Prop")) =>
                  reported /\ batch.failed_objects = <<"Rig">>

\* A batch bake of Body, Rig, Prop in which only Rig failed.
C11_Witness ==
    /\ BatchCalled /\ batch.op = "bake"
    /\ batch.objects = <<"Body", "Rig", "Prop">>
    /\ ObjectSucceeded("Body") /\ Processed("Rig") /\ ~ObjectSucceeded("Rig")
    /\ ObjectSucceeded("Prop")
    /\ returned.kind = "return" /\ returned.value[1]
    /\ batch.failed_objects = <<"Rig">>

\* C12: after a batch call returns, the active object and the set of selected
\* objects are what they were before the call.
C12_SelectionRestored ==
    (BatchCalled /\ returned.kind = "return") =>
        /\ selected = batch.before.selected
        /\ active = batch.before.active

\* C13: when transform.rotate or transform_apply fails for an object of a
\* batch, the call still returns, every eligible object of the list has been
\* processed, the objects whose call succeeded hold their transformed state,
\* and the failing object is left with rotation zero (rotate failed) or with
\* the quarter turn alone (transform_apply failed) and its geometry untouched.
C13_FailureNeitherAbortsNorRollsBack ==
    (BatchCalled /\ \E i \in DOMAIN Eligible :
                       batch.faults[Eligible[i]] \in {"rotate", "transform_apply"}) =>
        /\ returned.kind = "return"
        /\ \A i \in DOMAIN Eligible :
              LET o == Eligible[i]
                  was == batch.before
                  turn == IF batch.op = "bake" THEN -90 ELSE 90
              IN  /\ Processed(o)
                  /\ batch.faults[o] = "none" =>
                        /\ geometry[o] = (was.geometry[o] + turn) % 360
                        /\ rotation[o] = history[o][Len(history[o])].rotation
                        /\ history[o][Len(history[o])].ok
                  /\ batch.faults[o] = "rotate" =>
                        rotation[o] = <<0, 0, 0>> /\ geometry[o] = was.geometry[o]
                  /\ batch.faults[o] = "transform_apply" =>
                        /\ rotation[o] = <<(IF batch.op = "bake" THEN -1 ELSE 1) * 52707180, 0, 0>>
                        /\ geometry[o] = was.geometry[o]

\* A batch bake of Body, Rig, Prop in which transform_apply failed for Rig:
\* Body stays baked, Rig keeps the quarter turn, Prop is baked after it.
C13_Witness ==
    /\ BatchCalled /\ batch.op = "bake"
    /\ batch.objects = <<"Body", "Rig", "Prop">>
    /\ batch.faults["Rig"] = "transform_apply"
    /\ rotation["Rig"] = <<-52707180, 0, 0>> /\ batch.before.rotation["Rig"] = <<0, 0, 0>>
    /\ geometry["Body"] = 270 /\ geometry["Prop"] = 270 /\ geometry["Rig"] = 0
    /\ returned.kind = "return"

(***************************************************************************)
(* Claims about repeated classification, checked under SpecTwice.          *)
(***************************************************************************)

C17_ListNamesAvailableClips ==
    pc = "populate_action_list" =>
        /\ Len(selected_actions) = Cardinality(DOMAIN actions)
        /\ {selected_actions[i].action : i \in DOMAIN selected_actions} = DOMAIN actions
        /\ get_selected_action_names(selected_actions) \subseteq DOMAIN actions

\* C18: after ACTION_OT_select_compatible_actions.execute has run with
\* operator_ref set, an item is selected iff the clip it names exists and the
\* classifier finds it compatible.
C18_SelectedIffCompatible ==
    (pc = "select_compatible_actions" /\ operator_ref) =>
        \A i \in DOMAIN selected_actions :
            selected_actions[i].selected <=>
                /\ selected_actions[i].action \in DOMAIN actions
                /\ is_action_compatible_with_export(
                       objects, context, operator,
                       actions[selected_actions[i].action]).is_compatible

(***************************************************************************)
(* Claims about the animation groups, checked under SpecGroups.            *)
(***************************************************************************)

\* The groups of the scene that bear the name asked about.
Named == {g \in {groups.groups[i] : i \in DOMAIN groups.groups} :
             g.name = result.group_name}

\* The objects assigned in the groups asked about.
AssignedNames ==
    UNION {{g.slot_assignments[i] : i \in DOMAIN g.slot_assignments} : g \in Named}
        \ {NoObject}

CandidateNames == {Candidates[i].name : i \in DOMAIN Candidates}

GroupChecked == pc = "is_animation_group_compatible_with_export"

\* C14 as stated: the group check reports a named group compatible iff the
\* objects of its assignments and the export candidates have an object in
\* common.
C14_Original ==
    GroupChecked => (result.is_compatible <=> AssignedNames \cap CandidateNames # {})

\* C14 (amended): the group check reports a named group compatible iff the
\* group has a designated clip and the objects of its assignments and the
\* export candidates have an object in common; the clip's curves play no part.
C14_GroupCompatibleIffClipAndOverlap ==
    GroupChecked =>
        (result.is_compatible <=>
            /\ \E g \in Named : g.action # NoAction
            /\ AssignedNames \cap CandidateNames # {})

\* The group Walk is reported compatible through its assignment to Plane,
\* though the classifier finds its clip compatible with no candidate.
C14_Witness ==
    /\ GroupChecked /\ result.group_name = "Walk" /\ result.is_compatible
    /\ \E g \in Named :
          ~is_action_compatible_with_export(objects, context, operator,
                                            g.action).is_compatible

\* C16: when populate_animation_group_list is called again on unchanged
\* groups, every item is left as the call found it.
C16_ChoicesSurviveRedraw ==
    (pc = "populate_animation_group_list" /\ ~result.first) =>
        selected_animation_groups = redraw.found

====
